---- MODULE Spec2Model ----
(***************************************************************************)
(* ProcessAudioCapture (src/src/proctap/core.py): the capture session, its *)
(* worker thread, the delivery queue and the blocking read.                *)
(*                                                                         *)
(* Threads of the model: one caller thread that issues start(), stop() and *)
(* close() one after the other; the worker threads the session spawns;     *)
(* reader threads that call read(timeout).                                 *)
(***************************************************************************)
EXTENDS Integers, Sequences, FiniteSets, TLC

\* ------------------------------------------------------------------ bounds
MaxWorkers == 2
MaxBuffers == 2
\* Scenario S4 (overflow): the capacity the queue is said to have, and the
\* number of buffers the worker produces before any consumer reads.
S4Capacity == 4
S4Produced == 10
\* the longest --duration, in sleeps of the main loop of the command line
MaxDuration == 1
\* the longest process enumeration find_pid_by_name walks
MaxProcs == 2
\* the most frames in one native buffer, and the most convert() calls on
\* one converter
MaxFrames == 2
MaxCalls == 4

Workers == 1..MaxWorkers
Readers == {"r1", "r2"}

\* ---------------------------------------------------------------- constants
\* queue.Queue() is built without a maxsize: 0 means "no limit".
maxsize == 0
\* The terminal sentinel (None) as a queue item; data buffers are 1, 2, ...
Sentinel == 0
\* self._thread is None
NoThread == 0

Callbacks == {"None", "A", "B"}

\* args.duration when --duration is not given (None)
NoDuration == -1
\* The exit status of parser.error(): argparse exits with status 2.
ExitUsage == 2
\* The exit status of the interpreter when flushing sys.stdout fails at
\* shutdown, after "sys.exit(main())".
ExitFlushFailed == 120
\* No exit status yet: the process runs.
Running == -1

\* find_pid_by_name is not called.
NoFind == [pc |-> "none"]

\* find_pid_by_name at its call.
FindCall(lib, ps, name) ==
    [pc |-> "start", psutil |-> lib, procs |-> ps, process_name |-> name,
     i |-> 0, result |-> "none", pid |-> 0]

\* The converter before it is constructed.
NoConv == [pc |-> "none"]

\* main() is not run: the session is used as a library.
NoCli == [mpc |-> "none"]

\* main() once the command line is parsed.
Parsed(p, n, o, d) ==
    [mpc |-> "validate", pid |-> p, name |-> n, stdout |-> o, duration |-> d,
     stop_requested |-> FALSE, elapsed |-> 0, target |-> "none",
     stop_calls |-> 0, pipe |-> "open", unflushed |-> FALSE, stderr |-> FALSE,
     exit_code |-> Running]
\* What the caller passes to set_callback(): a new callback, or None to remove
\* the registered one.
NewCallbacks == {"None", "B"}

VARIABLES
    thread,          \* self._thread: NoThread or the worker it refers to
    stop_event,      \* self._stop_event
    backend_started, \* the backend, between backend.start() and backend.stop()
    on_data,         \* self._on_data
    async_queue,     \* self._async_queue
    wpc,             \* position of each worker thread in _worker
    wbuf,            \* the buffer a worker holds (data of the current iteration)
    captured,        \* number of data buffers the backend has returned so far
    spawned,         \* number of worker threads created so far
    cpc,             \* position of the caller thread in start()/stop()
    lifecycle,       \* idle | running | stopped, as the last returned call left it
    rpc,             \* position of each reader thread in read()
    cbLog,           \* callback invocations so far, in start order:
                     \* <<fn, buffer, "called" or "raised">>
    readLog,         \* items dequeued so far by read() or iter_chunks(), in
                     \* dequeue order
    cb_arg,          \* the argument of the set_callback() call in progress
    ipc,             \* position of the iter_chunks() consumer
    yielded,         \* chunks iter_chunks() has yielded so far
    ipc2,            \* position of a second iter_chunks() consumer
    with_pc,         \* position of the caller relative to a "with" block
    cli,             \* the command-line program: main() of __main__.py
    find,            \* one call of find_pid_by_name of __main__.py
    conv             \* the format converter between a backend and the worker

vars == <<thread, stop_event, backend_started, on_data, async_queue, wpc, wbuf,
          captured, spawned, cpc, lifecycle, rpc, cbLog, readLog, cb_arg, ipc,
          yielded, ipc2, with_pc, cli, find, conv>>

sessionVars == <<thread, stop_event, backend_started, on_data, async_queue>>
workerVars == <<wpc, wbuf, captured, spawned, cbLog>>
\* What the session's own methods never touch: the code around the session.
toolVars == <<with_pc, cli, find, conv>>
callerVars == <<cpc, lifecycle, cb_arg, toolVars>>
consumerVars == <<ipc, yielded, ipc2>>
readerVars == <<rpc, readLog, consumerVars>>

\* ----------------------------------------------------------------- helpers
\* threading.Thread.is_alive()
is_alive(w) == w # NoThread /\ wpc[w] \notin {"unborn", "dead"}

\* ProcessAudioCapture.is_running
is_running == thread # NoThread /\ is_alive(thread)

\* queue.Queue.put_nowait followed by the worker's "except queue.Full: pass":
\* a full queue leaves the queue as it is and the new item is lost.
put_nowait(q, item) ==
    IF maxsize > 0 /\ Len(q) >= maxsize THEN q ELSE Append(q, item)

\* What a backend.read() that returns now can give.  A stopped adapter gives
\* no data: it returns empty or fails with an adapter-internal error.  The
\* backend gives at most limit data buffers in all.
ReadOutcomes(limit) ==
    IF backend_started /\ captured < limit
    THEN {"data", "empty", "error"}
    ELSE {"empty", "error"}

\* ProcessAudioCapture.__init__
InitCapture ==
    /\ thread = NoThread
    /\ stop_event = FALSE
    /\ backend_started = FALSE
    /\ on_data \in {"None", "A"}
    /\ async_queue = << >>
    /\ wpc = [w \in Workers |-> "unborn"]
    /\ wbuf = [w \in Workers |-> 0]
    /\ captured = 0
    /\ spawned = 0
    /\ cpc = "idle"
    /\ lifecycle = "idle"
    /\ rpc = [r \in Readers |-> "idle"]
    /\ cbLog = << >>
    /\ readLog = << >>
    /\ cb_arg = "None"
    /\ ipc = "idle"
    /\ yielded = << >>
    /\ ipc2 = "idle"

\* A session that is used through its methods, outside any "with" block.
Init ==
    /\ InitCapture
    /\ with_pc = "none"
    /\ cli = NoCli
    /\ find = NoFind
    /\ conv = NoConv

\* ------------------------------------------------------- caller: start()
\* The caller enters start().
CallStart ==
    /\ cpc = "idle"
    /\ thread # NoThread \/ spawned < MaxWorkers
    /\ cpc' = "start"
    /\ UNCHANGED <<lifecycle, cb_arg, toolVars, sessionVars, workerVars, readerVars>>

\* Faulty variant: start() without the "already started" check.
StartCheck_NoGuard ==
    /\ cpc = "start"
    /\ backend_started' = TRUE
    /\ cpc' = "start_clear"
    /\ UNCHANGED <<lifecycle, cb_arg, toolVars, thread, stop_event, on_data, async_queue,
                   workerVars, readerVars>>

\* Faulty variant: start() that stores the thread object before it starts the
\* backend, so that a failed backend.start() leaves the handle set.
StartCheck_HandleFirst ==
    /\ cpc = "start"
    /\ thread # NoThread \/ spawned < MaxWorkers
    /\ IF thread # NoThread
       THEN /\ cpc' = "skipped"
            /\ UNCHANGED <<backend_started, thread>>
       ELSE \E ok \in BOOLEAN :
              IF ok
              THEN /\ backend_started' = TRUE
                   /\ cpc' = "start_clear"
                   /\ UNCHANGED thread
              ELSE /\ cpc' = "start_failed"
                   /\ thread' = spawned + 1
                   /\ UNCHANGED backend_started
    /\ UNCHANGED <<lifecycle, cb_arg, toolVars, stop_event, on_data, async_queue,
                   workerVars, readerVars>>

\* "if self._thread is not None: return", else self._backend.start().  The
\* model creates at most MaxWorkers worker threads.
StartCheck ==
    /\ cpc = "start"
    /\ thread # NoThread \/ spawned < MaxWorkers
    /\ IF thread # NoThread
       THEN /\ cpc' = "skipped"
            /\ UNCHANGED backend_started
       ELSE \E ok \in BOOLEAN :
              IF ok
              THEN /\ backend_started' = TRUE
                   /\ cpc' = "start_clear"
              ELSE \* backend.start() raises
                   /\ cpc' = "start_failed"
                   /\ UNCHANGED backend_started
    /\ UNCHANGED <<lifecycle, cb_arg, toolVars, thread, stop_event, on_data, async_queue,
                   workerVars, readerVars>>

\* The error of backend.start() leaves start(): the caller has it.
StartFailed ==
    /\ cpc = "start_failed"
    /\ cpc' = "idle"
    /\ UNCHANGED <<lifecycle, cb_arg, toolVars, sessionVars, workerVars, readerVars>>

\* 'logger.debug("Already started, skipping"); return'
StartSkip ==
    /\ cpc = "skipped"
    /\ cpc' = "idle"
    /\ UNCHANGED <<lifecycle, cb_arg, toolVars, sessionVars, workerVars, readerVars>>

\* Faulty variant: start() that forgets to clear the stop flag.
StartClear_Missing ==
    /\ cpc = "start_clear"
    /\ cpc' = "start_spawn"
    /\ UNCHANGED <<lifecycle, cb_arg, toolVars, sessionVars, workerVars, readerVars>>

\* self._stop_event.clear()
StartClear ==
    /\ cpc = "start_clear"
    /\ stop_event' = FALSE
    /\ cpc' = "start_spawn"
    /\ UNCHANGED <<lifecycle, cb_arg, toolVars, thread, backend_started, on_data, async_queue,
                   workerVars, readerVars>>

\* self._thread = threading.Thread(target=self._worker); self._thread.start()
StartSpawn ==
    /\ cpc = "start_spawn"
    /\ spawned' = spawned + 1
    /\ thread' = spawned + 1
    /\ wpc' = [wpc EXCEPT ![spawned + 1] = "check"]
    /\ cpc' = "idle"
    /\ lifecycle' = "running"
    /\ UNCHANGED <<stop_event, backend_started, on_data, async_queue,
                   wbuf, captured, cbLog, cb_arg, toolVars, readerVars>>

\* -------------------------------------------------- caller: stop(), close()
CallStop ==
    /\ cpc = "idle"
    /\ cpc' = "stop"
    /\ UNCHANGED <<lifecycle, cb_arg, toolVars, sessionVars, workerVars, readerVars>>

\* The caller enters close().
CallClose ==
    /\ cpc = "idle"
    /\ cpc' = "close"
    /\ UNCHANGED <<lifecycle, cb_arg, toolVars, sessionVars, workerVars, readerVars>>

\* close() is "self.stop()"
CloseStop ==
    /\ cpc = "close"
    /\ cpc' = "stop"
    /\ UNCHANGED <<lifecycle, cb_arg, toolVars, sessionVars, workerVars, readerVars>>

\* self._stop_event.set()
StopSet ==
    /\ cpc = "stop"
    /\ stop_event' = TRUE
    /\ cpc' = "stop_join"
    /\ UNCHANGED <<lifecycle, cb_arg, toolVars, thread, backend_started, on_data, async_queue,
                   workerVars, readerVars>>

\* join(timeout=1.0) returns when the worker has ended, or after the timeout
\* while the worker is inside a call of unbounded duration (backend.read() or
\* the callback).
JoinReturns(w) == ~is_alive(w) \/ wpc[w] \in {"read", "callback"}

\* Faulty variant: stop() that joins without a timeout.
StopJoin_NoTimeout ==
    /\ cpc = "stop_join"
    /\ thread # NoThread => ~is_alive(thread)
    /\ thread' = NoThread
    /\ cpc' = "stop_backend"
    /\ UNCHANGED <<lifecycle, cb_arg, toolVars, stop_event, backend_started,
                   on_data, async_queue, workerVars, readerVars>>

\* Faulty variant: stop() that joins but forgets "self._thread = None".
StopJoin_KeepsHandle ==
    /\ cpc = "stop_join"
    /\ thread # NoThread => JoinReturns(thread)
    /\ cpc' = "stop_backend"
    /\ UNCHANGED <<lifecycle, cb_arg, toolVars, sessionVars, workerVars, readerVars>>

\* "if self._thread is not None: self._thread.join(timeout=1.0);
\*  self._thread = None"
StopJoin ==
    /\ cpc = "stop_join"
    /\ thread # NoThread => JoinReturns(thread)
    /\ thread' = NoThread
    /\ cpc' = "stop_backend"
    /\ UNCHANGED <<lifecycle, cb_arg, toolVars, stop_event, backend_started, on_data,
                   async_queue, workerVars, readerVars>>

\* Faulty variant: stop() that enqueues the sentinel itself, on every call.
StopBackend_PutsSentinel ==
    /\ cpc = "stop_backend"
    /\ backend_started' = FALSE
    /\ async_queue' = put_nowait(async_queue, Sentinel)
    /\ cpc' = "idle"
    /\ lifecycle' = "stopped"
    /\ UNCHANGED <<thread, stop_event, on_data, cb_arg, toolVars, workerVars, readerVars>>

\* self._backend.stop(), then stop() returns
StopBackend ==
    /\ cpc = "stop_backend"
    /\ backend_started' = FALSE
    /\ cpc' = "idle"
    /\ lifecycle' = "stopped"
    /\ UNCHANGED <<thread, stop_event, on_data, async_queue, cb_arg, toolVars,
                   workerVars, readerVars>>

\* ------------------------------------------------- caller: set_callback()
\* The caller enters set_callback(f).
CallSetCallback(f) ==
    /\ cpc = "idle"
    /\ cpc' = "set_callback"
    /\ cb_arg' = f
    /\ UNCHANGED <<lifecycle, toolVars, sessionVars, workerVars, readerVars>>

\* Faulty variant: set_callback() that has no effect on a running session.
SetCallback_IgnoredWhileRunning ==
    /\ cpc = "set_callback"
    /\ on_data' = IF is_running THEN on_data ELSE cb_arg
    /\ cb_arg' = "None"
    /\ cpc' = "idle"
    /\ UNCHANGED <<lifecycle, toolVars, thread, stop_event, backend_started,
                   async_queue,
                   workerVars, readerVars>>

\* Faulty variant: set_callback() that rejects the call on a session that is
\* not running and leaves the slot as it is.
SetCallback_RequiresRunning ==
    /\ cpc = "set_callback"
    /\ on_data' = IF is_running THEN cb_arg ELSE on_data
    /\ cb_arg' = "None"
    /\ cpc' = "idle"
    /\ UNCHANGED <<lifecycle, toolVars, thread, stop_event, backend_started,
                   async_queue,
                   workerVars, readerVars>>

\* Faulty variant: set_callback() that swaps in two steps, removing the old
\* callback before it stores the new one.
SetCallback_RemoveThenSet ==
    /\ cpc = "set_callback"
    /\ IF on_data # "None" /\ cb_arg # "None"
       THEN /\ on_data' = "None"
            /\ UNCHANGED <<cpc, cb_arg>>
       ELSE /\ on_data' = cb_arg
            /\ cb_arg' = "None"
            /\ cpc' = "idle"
    /\ UNCHANGED <<lifecycle, toolVars, thread, stop_event, backend_started,
                   async_queue,
                   workerVars, readerVars>>

\* "self._on_data = callback", and set_callback() returns
SetCallback ==
    /\ cpc = "set_callback"
    /\ on_data' = cb_arg
    /\ cb_arg' = "None"
    /\ cpc' = "idle"
    /\ UNCHANGED <<lifecycle, toolVars, thread, stop_event, backend_started,
                   async_queue,
                   workerVars, readerVars>>

\* ------------------------------------------------------------ _worker
\* "while not self._stop_event.is_set()"
WorkerCheck(w) ==
    /\ wpc[w] = "check"
    /\ wpc' = [wpc EXCEPT ![w] = IF stop_event THEN "sentinel" ELSE "read"]
    /\ UNCHANGED <<wbuf, captured, spawned, cbLog, sessionVars, callerVars,
                   readerVars>>

\* "data = self._backend.read()" returns or raises: an exception goes to the
\* except clause; an empty result goes to the sleep; data goes to the callback.
WorkerReadUpTo(w, limit) ==
    /\ wpc[w] = "read"
    /\ \E outcome \in ReadOutcomes(limit) :
         CASE outcome = "error" ->
                /\ wpc' = [wpc EXCEPT ![w] = "read_except"]
                /\ UNCHANGED <<wbuf, captured>>
           [] outcome = "empty" ->
                /\ wpc' = [wpc EXCEPT ![w] = "sleep"]
                /\ UNCHANGED <<wbuf, captured>>
           [] outcome = "data" ->
                /\ captured' = captured + 1
                /\ wbuf' = [wbuf EXCEPT ![w] = captured + 1]
                /\ wpc' = [wpc EXCEPT ![w] = "dispatch"]
    /\ UNCHANGED <<spawned, cbLog, sessionVars, callerVars, readerVars>>

WorkerRead(w) == WorkerReadUpTo(w, MaxBuffers)

\* Faulty variant: a failed backend.read() ends the loop ("break").
WorkerReadExcept_Breaks(w) ==
    /\ wpc[w] = "read_except"
    /\ wpc' = [wpc EXCEPT ![w] = "sentinel"]
    /\ UNCHANGED <<wbuf, captured, spawned, cbLog, sessionVars, callerVars,
                   readerVars>>

\* 'except Exception: logger.exception("Error reading data from backend");
\*  continue'
WorkerReadExcept(w) ==
    /\ wpc[w] = "read_except"
    /\ wpc' = [wpc EXCEPT ![w] = "check"]
    /\ UNCHANGED <<wbuf, captured, spawned, cbLog, sessionVars, callerVars,
                   readerVars>>

\* Faulty variant: the worker takes an empty read for the end of the stream
\* and leaves its loop.
WorkerSleep_GivesUp(w) ==
    /\ wpc[w] = "sleep"
    /\ wpc' = [wpc EXCEPT ![w] = "sentinel"]
    /\ UNCHANGED <<wbuf, captured, spawned, cbLog, sessionVars, callerVars,
                   readerVars>>

\* Faulty variant: after an empty read the worker reads again without
\* testing the stop flag.
WorkerSleep_NoRecheck(w) ==
    /\ wpc[w] = "sleep"
    /\ wpc' = [wpc EXCEPT ![w] = "read"]
    /\ UNCHANGED <<wbuf, captured, spawned, cbLog, sessionVars, callerVars,
                   readerVars>>

\* "time.sleep(0.01); continue"
WorkerSleep(w) ==
    /\ wpc[w] = "sleep"
    /\ wpc' = [wpc EXCEPT ![w] = "check"]
    /\ UNCHANGED <<wbuf, captured, spawned, cbLog, sessionVars, callerVars,
                   readerVars>>

\* "if self._on_data is not None"
WorkerDispatch(w) ==
    /\ wpc[w] = "dispatch"
    /\ wpc' = [wpc EXCEPT ![w] = IF on_data # "None" THEN "invoke" ELSE "put"]
    /\ UNCHANGED <<wbuf, captured, spawned, cbLog, sessionVars, callerVars,
                   readerVars>>

\* "self._on_data(data, frames)": the slot is loaded again and called.  Calling
\* None raises TypeError, which "except Exception" logs.
WorkerInvoke(w) ==
    /\ wpc[w] = "invoke"
    /\ IF on_data # "None"
       THEN /\ cbLog' = Append(cbLog, <<on_data, wbuf[w], "called">>)
            /\ wpc' = [wpc EXCEPT ![w] = "callback"]
       ELSE /\ wpc' = [wpc EXCEPT ![w] = "put"]
            /\ UNCHANGED cbLog
    /\ UNCHANGED <<wbuf, captured, spawned, sessionVars, callerVars, readerVars>>

\* The callback returns: the worker goes on to the queue.
CallbackReturn(w) ==
    /\ wpc[w] = "callback"
    /\ wpc' = [wpc EXCEPT ![w] = "put"]
    /\ UNCHANGED <<wbuf, captured, spawned, cbLog, sessionVars, callerVars,
                   readerVars>>

\* The log with the invocation for buffer b marked as raised.
MarkRaised(log, b) ==
    [i \in 1..Len(log) |->
        IF log[i][2] = b THEN <<log[i][1], b, "raised">> ELSE log[i]]

\* Faulty variant: an exception of the callback ends the worker thread.
CallbackRaise_Propagates(w) ==
    /\ wpc[w] = "callback"
    /\ cbLog' = MarkRaised(cbLog, wbuf[w])
    /\ wpc' = [wpc EXCEPT ![w] = "dead"]
    /\ UNCHANGED <<wbuf, captured, spawned, sessionVars, callerVars,
                   readerVars>>

\* The callback raises: 'except Exception: logger.exception("Error in audio
\* callback")', and the worker goes on to the queue.
CallbackRaise(w) ==
    /\ wpc[w] = "callback"
    /\ cbLog' = MarkRaised(cbLog, wbuf[w])
    /\ wpc' = [wpc EXCEPT ![w] = "put"]
    /\ UNCHANGED <<wbuf, captured, spawned, sessionVars, callerVars,
                   readerVars>>

\* ------------------------------------- stop() called by the callback
\* The callback, on the worker thread, calls stop(): "self._stop_event.set()".
CallbackStop(w) ==
    /\ wpc[w] = "callback"
    /\ stop_event' = TRUE
    /\ wpc' = [wpc EXCEPT ![w] = "cb_stop_join"]
    /\ UNCHANGED <<thread, backend_started, on_data, async_queue, wbuf,
                   captured, spawned, cbLog, callerVars, readerVars>>

\* "if self._thread is not None: self._thread.join(timeout=1.0);
\*  self._thread = None", on the worker thread: Thread.join raises
\* RuntimeError("cannot join current thread") when the handle is the calling
\* thread itself, before the handle is cleared.
CallbackStopJoin(w) ==
    /\ wpc[w] = "cb_stop_join"
    /\ IF thread = w
       THEN /\ wpc' = [wpc EXCEPT ![w] = "cb_stop_raised"]
            /\ UNCHANGED thread
       ELSE /\ thread # NoThread => JoinReturns(thread)
            /\ thread' = NoThread
            /\ wpc' = [wpc EXCEPT ![w] = "cb_stop_backend"]
    /\ UNCHANGED <<stop_event, backend_started, on_data, async_queue, wbuf,
                   captured, spawned, cbLog, callerVars, readerVars>>

\* self._backend.stop(), then stop() returns into the callback
CallbackStopBackend(w) ==
    /\ wpc[w] = "cb_stop_backend"
    /\ backend_started' = FALSE
    /\ lifecycle' = "stopped"
    /\ wpc' = [wpc EXCEPT ![w] = "callback"]
    /\ UNCHANGED <<thread, stop_event, on_data, async_queue, wbuf, captured,
                   spawned, cbLog, cpc, cb_arg, toolVars, readerVars>>

\* The RuntimeError leaves stop() and the callback; the worker's "except
\* Exception" around the callback logs it.
CallbackStopRaised(w) ==
    /\ wpc[w] = "cb_stop_raised"
    /\ cbLog' = MarkRaised(cbLog, wbuf[w])
    /\ wpc' = [wpc EXCEPT ![w] = "put"]
    /\ UNCHANGED <<wbuf, captured, spawned, sessionVars, callerVars,
                   readerVars>>

\* "self._async_queue.put_nowait(data)"
WorkerPut(w) ==
    /\ wpc[w] = "put"
    /\ async_queue' = put_nowait(async_queue, wbuf[w])
    /\ wbuf' = [wbuf EXCEPT ![w] = 0]
    /\ wpc' = [wpc EXCEPT ![w] = "check"]
    /\ UNCHANGED <<captured, spawned, cbLog, thread, stop_event,
                   backend_started, on_data, callerVars, readerVars>>

\* "self._async_queue.put_nowait(None)", and the thread ends
WorkerSentinel(w) ==
    /\ wpc[w] = "sentinel"
    /\ async_queue' = put_nowait(async_queue, Sentinel)
    /\ wpc' = [wpc EXCEPT ![w] = "dead"]
    /\ UNCHANGED <<wbuf, captured, spawned, cbLog, thread, stop_event,
                   backend_started, on_data, callerVars, readerVars>>

\* ------------------------------------------------------------ read(timeout)
\* A reader thread enters read(timeout).
CallRead(r) ==
    /\ rpc[r] \in {"idle", "raised", "attr_error"}
    /\ rpc' = [rpc EXCEPT ![r] = "read"]
    /\ UNCHANGED <<readLog, consumerVars, sessionVars, workerVars, callerVars>>

\* "if not self.is_running", first half: "self._thread is not None".  When it
\* is None, is_running is False and read() raises RuntimeError.
ReadCheck(r) ==
    /\ rpc[r] = "read"
    /\ rpc' = [rpc EXCEPT ![r] = IF thread # NoThread THEN "alive" ELSE "raised"]
    /\ UNCHANGED <<readLog, consumerVars, sessionVars, workerVars, callerVars>>

\* "if not self.is_running", second half: "self._thread.is_alive()" loads
\* self._thread again; on None the attribute access raises AttributeError.
ReadAlive(r) ==
    /\ rpc[r] = "alive"
    /\ rpc' = [rpc EXCEPT ![r] =
                 IF thread = NoThread THEN "attr_error"
                 ELSE IF is_running THEN "get" ELSE "raised"]
    /\ UNCHANGED <<readLog, consumerVars, sessionVars, workerVars, callerVars>>

\* "return self._async_queue.get(timeout=timeout)" takes the head of the queue
ReadGet(r) ==
    /\ rpc[r] = "get"
    /\ async_queue # << >>
    /\ async_queue' = Tail(async_queue)
    /\ readLog' = Append(readLog, Head(async_queue))
    /\ rpc' = [rpc EXCEPT ![r] = "idle"]
    /\ UNCHANGED <<thread, stop_event, backend_started, on_data, workerVars,
                   callerVars, consumerVars>>

\* "except queue.Empty: return None": the queue stayed empty for the timeout
ReadTimeout(r) ==
    /\ rpc[r] = "get"
    /\ async_queue = << >>
    /\ rpc' = [rpc EXCEPT ![r] = "idle"]
    /\ UNCHANGED <<readLog, consumerVars, sessionVars, workerVars, callerVars>>

\* ------------------------------------------------------------ iter_chunks()
\* The consumer starts iterating: "while True".
IterStart ==
    /\ ipc = "idle"
    /\ ipc' = "get"
    /\ UNCHANGED <<yielded, ipc2, rpc, readLog, sessionVars, workerVars,
                   callerVars>>

\* Faulty variant: iter_chunks() that yields whatever it dequeues and goes on.
IterNext_YieldsSentinel ==
    /\ ipc = "get"
    /\ async_queue # << >>
    /\ async_queue' = Tail(async_queue)
    /\ readLog' = Append(readLog, Head(async_queue))
    /\ yielded' = Append(yielded, Head(async_queue))
    /\ UNCHANGED <<ipc, ipc2, rpc, thread, stop_event, backend_started, on_data,
                   workerVars, callerVars>>

\* "chunk = await loop.run_in_executor(None, self._async_queue.get)" blocks
\* until the queue has an item; "if chunk is None: break", else "yield chunk".
IterNext ==
    /\ ipc = "get"
    /\ async_queue # << >>
    /\ async_queue' = Tail(async_queue)
    /\ readLog' = Append(readLog, Head(async_queue))
    /\ IF Head(async_queue) = Sentinel
       THEN /\ ipc' = "done"
            /\ UNCHANGED yielded
       ELSE /\ yielded' = Append(yielded, Head(async_queue))
            /\ UNCHANGED ipc
    /\ UNCHANGED <<ipc2, rpc, thread, stop_event, backend_started, on_data,
                   workerVars, callerVars>>

\* A second consumer enters iter_chunks() on the same session.
Iter2Start ==
    /\ ipc2 = "idle"
    /\ ipc2' = "get"
    /\ UNCHANGED <<ipc, yielded, rpc, readLog, sessionVars, workerVars,
                   callerVars>>

\* One turn of the loop of the second consumer: as IterNext, with the chunks
\* it yields left out of the model.
Iter2Next ==
    /\ ipc2 = "get"
    /\ async_queue # << >>
    /\ async_queue' = Tail(async_queue)
    /\ readLog' = Append(readLog, Head(async_queue))
    /\ ipc2' = IF Head(async_queue) = Sentinel THEN "done" ELSE "get"
    /\ UNCHANGED <<ipc, yielded, rpc, thread, stop_event, backend_started,
                   on_data, workerVars, callerVars>>

\* ------------------------------------------------------------------- Next
Next ==
    \/ CallStart
    \/ StartCheck
    \/ StartFailed
    \/ StartSkip
    \/ StartClear
    \/ StartSpawn
    \/ CallStop
    \/ CallClose
    \/ CloseStop
    \/ StopSet
    \/ StopJoin
    \/ StopBackend
    \/ \E w \in Workers : WorkerCheck(w)
    \/ \E w \in Workers : WorkerRead(w)
    \/ \E w \in Workers : WorkerReadExcept(w)
    \/ \E w \in Workers : WorkerSleep(w)
    \/ \E w \in Workers : WorkerDispatch(w)
    \/ \E w \in Workers : WorkerInvoke(w)
    \/ \E w \in Workers : CallbackReturn(w)
    \/ \E w \in Workers : CallbackRaise(w)
    \/ \E w \in Workers : WorkerPut(w)
    \/ \E w \in Workers : WorkerSentinel(w)

\* Callback mode: start(), stop(), close() set_callback() and the
\* worker, no read().
Spec == Init /\ [][Next]_vars

\* ------------------------------------------- callback mode: set_callback()
\* The caller registers callbacks with set_callback() between and during the
\* runs of the session.
NextCallback ==
    \/ CallStart
    \/ StartCheck
    \/ StartFailed
    \/ StartSkip
    \/ StartClear
    \/ StartSpawn
    \/ CallStop
    \/ StopSet
    \/ StopJoin
    \/ StopBackend
    \/ \E f \in NewCallbacks : CallSetCallback(f)
    \/ SetCallback
    \/ \E w \in Workers : WorkerCheck(w)
    \/ \E w \in Workers : WorkerRead(w)
    \/ \E w \in Workers : WorkerReadExcept(w)
    \/ \E w \in Workers : WorkerSleep(w)
    \/ \E w \in Workers : WorkerDispatch(w)
    \/ \E w \in Workers : WorkerInvoke(w)
    \/ \E w \in Workers : CallbackReturn(w)
    \/ \E w \in Workers : WorkerPut(w)
    \/ \E w \in Workers : WorkerSentinel(w)

\* Callback A is registered at construction.
InitCallback == Init /\ on_data = "A"

SpecCallback == InitCallback /\ [][NextCallback]_vars

\* -------------------------------------- scenario: swap A for B while running
\* The caller calls set_callback(B) on the running session, once.
CallSwap ==
    /\ lifecycle = "running"
    /\ on_data = "A"
    /\ CallSetCallback("B")

\* Callback A is registered at construction; one start(), no stop(); the
\* caller swaps A for B at any point of the worker's loop.
NextSwap ==
    \/ CallStart
    \/ StartCheck
    \/ StartFailed
    \/ StartSkip
    \/ StartClear
    \/ StartSpawn
    \/ CallSwap
    \/ SetCallback
    \/ \E w \in Workers : WorkerCheck(w)
    \/ \E w \in Workers : WorkerRead(w)
    \/ \E w \in Workers : WorkerReadExcept(w)
    \/ \E w \in Workers : WorkerSleep(w)
    \/ \E w \in Workers : WorkerDispatch(w)
    \/ \E w \in Workers : WorkerInvoke(w)
    \/ \E w \in Workers : CallbackReturn(w)
    \/ \E w \in Workers : CallbackRaise(w)
    \/ \E w \in Workers : WorkerPut(w)

SpecSwap == InitCallback /\ [][NextSwap]_vars

\* --------------------------------- callback mode: the callback calls stop()
\* As Spec, and the callback may call stop() on the session it serves.
NextCallbackStop ==
    \/ Next
    \/ \E w \in Workers : CallbackStop(w)
    \/ \E w \in Workers : CallbackStopJoin(w)
    \/ \E w \in Workers : CallbackStopBackend(w)
    \/ \E w \in Workers : CallbackStopRaised(w)

SpecCallbackStop == InitCallback /\ [][NextCallbackStop]_vars

\* ------------------------------------------- scenario S1: silent target
\* The first start() of the session.
CallStartOnce ==
    /\ spawned = 0
    /\ CallStart

\* backend.read() of a silent target: it gives no data.
WorkerReadSilent(w) == WorkerReadUpTo(w, 0)

\* The steps of stop() and close() once entered.
StopSteps == CloseStop \/ StopSet \/ StopJoin \/ StopBackend

\* The steps of the worker thread w on a silent target.
SilentWorkerSteps(w) ==
    \/ WorkerCheck(w)
    \/ WorkerReadSilent(w)
    \/ WorkerReadExcept(w)
    \/ WorkerSleep(w)
    \/ WorkerSentinel(w)

\* One run on a silent target: start(), then stop() or close() any number of
\* times.
NextSilent ==
    \/ CallStartOnce
    \/ StartCheck
    \/ StartFailed
    \/ StartClear
    \/ StartSpawn
    \/ CallStop
    \/ CallClose
    \/ StopSteps
    \/ \E w \in Workers : SilentWorkerSteps(w)

\* The caller's thread inside stop() and the worker threads are scheduled
\* again and again; a backend.read() of the silent target returns.
SpecSilent ==
    /\ Init
    /\ [][NextSilent]_vars
    /\ WF_vars(StopSteps)
    /\ \A w \in Workers : WF_vars(SilentWorkerSteps(w))

\* --------------------------------------------- scoped use: "with" block
\* "with capture:" calls __enter__, which is "self.start()".
WithEnter ==
    /\ with_pc \in {"none", "after_ok", "after_exc", "enter_failed"}
    /\ cpc = "idle"
    /\ spawned < MaxWorkers
    /\ with_pc' = "enter"
    /\ cpc' = "start"
    /\ UNCHANGED <<lifecycle, cb_arg, cli, find, conv, sessionVars, workerVars, rpc,
                   readLog, consumerVars>>

\* start() raises out of __enter__: the block is not entered and __exit__ is
\* not called.
WithEnterFailed ==
    /\ with_pc = "enter"
    /\ cpc = "start_failed"
    /\ with_pc' = "enter_failed"
    /\ cpc' = "idle"
    /\ UNCHANGED <<lifecycle, cb_arg, cli, find, conv, sessionVars, workerVars, rpc,
                   readLog, consumerVars>>

\* "return self": the body of the block begins.
WithBody ==
    /\ with_pc = "enter"
    /\ cpc = "idle"
    /\ with_pc' = "body"
    /\ UNCHANGED <<cpc, lifecycle, cb_arg, cli, find, conv, sessionVars, workerVars, rpc,
                   readLog, consumerVars>>

\* The body ends, normally or by raising: __exit__ is called, which is
\* "self.close()".
WithExit(raised) ==
    /\ with_pc = "body"
    /\ cpc = "idle"
    /\ with_pc' = IF raised THEN "exit_exc" ELSE "exit_ok"
    /\ cpc' = "close"
    /\ UNCHANGED <<lifecycle, cb_arg, cli, find, conv, sessionVars, workerVars, rpc,
                   readLog, consumerVars>>

\* close() has returned; __exit__ returns None, so an exception of the body
\* goes on to the caller of the block.
WithLeave ==
    /\ with_pc \in {"exit_ok", "exit_exc"}
    /\ cpc = "idle"
    /\ with_pc' = IF with_pc = "exit_exc" THEN "after_exc" ELSE "after_ok"
    /\ UNCHANGED <<cpc, lifecycle, cb_arg, cli, find, conv, sessionVars, workerVars, rpc,
                   readLog, consumerVars>>

\* The session is used through "with" blocks only, one after the other.
NextWith ==
    \/ WithEnter
    \/ WithEnterFailed
    \/ WithBody
    \/ \E raised \in BOOLEAN : WithExit(raised)
    \/ WithLeave
    \/ StartCheck
    \/ StartClear
    \/ StartSpawn
    \/ CloseStop
    \/ StopSet
    \/ StopJoin
    \/ StopBackend
    \/ \E w \in Workers : WorkerCheck(w)
    \/ \E w \in Workers : WorkerRead(w)
    \/ \E w \in Workers : WorkerReadExcept(w)
    \/ \E w \in Workers : WorkerSleep(w)
    \/ \E w \in Workers : WorkerDispatch(w)
    \/ \E w \in Workers : WorkerInvoke(w)
    \/ \E w \in Workers : CallbackReturn(w)
    \/ \E w \in Workers : CallbackRaise(w)
    \/ \E w \in Workers : WorkerPut(w)
    \/ \E w \in Workers : WorkerSentinel(w)

SpecWith == Init /\ [][NextWith]_vars

\* ------------------------------------------- scenario: a worker that hangs
\* The steps of the worker thread w that take a bounded time: all but the
\* return of backend.read() and the return of the callback.
PromptWorkerSteps(w) ==
    \/ WorkerCheck(w)
    \/ WorkerReadExcept(w)
    \/ WorkerSleep(w)
    \/ WorkerDispatch(w)
    \/ WorkerInvoke(w)
    \/ WorkerPut(w)
    \/ WorkerSentinel(w)

\* One run in callback mode: start(), then stop() or close() any number of
\* times.
NextHang ==
    \/ CallStartOnce
    \/ StartCheck
    \/ StartFailed
    \/ StartClear
    \/ StartSpawn
    \/ CallStop
    \/ CallClose
    \/ StopSteps
    \/ \E w \in Workers : PromptWorkerSteps(w)
    \/ \E w \in Workers : WorkerRead(w)
    \/ \E w \in Workers : CallbackReturn(w)
    \/ \E w \in Workers : CallbackRaise(w)

\* The caller's thread inside stop() and the worker threads are scheduled
\* again and again, but a backend.read() or a callback need not ever return.
SpecHang ==
    /\ Init
    /\ [][NextHang]_vars
    /\ WF_vars(StopSteps)
    /\ \A w \in Workers : WF_vars(PromptWorkerSteps(w))

\* ------------------------------------------- callback mode, fair scheduling
\* Every step of the worker thread w: its backend.read() and its callback
\* return too.
WorkerSteps(w) ==
    \/ PromptWorkerSteps(w)
    \/ WorkerRead(w)
    \/ CallbackReturn(w)
    \/ CallbackRaise(w)

\* The steps of start() once entered.
StartSteps == StartCheck \/ StartFailed \/ StartSkip \/ StartClear \/ StartSpawn

\* Callback mode where every thread is scheduled again and again: a call
\* of the caller, once entered, goes on to its end, and every worker takes
\* its next step, with each backend.read() and each callback returning.
SpecFair ==
    /\ Init
    /\ [][Next]_vars
    /\ WF_vars(StartSteps \/ StopSteps)
    /\ \A w \in Workers : WF_vars(WorkerSteps(w))

\* ------------------------------------------- the command line: main()
\* main() of src/src/proctap/__main__.py on the main thread: it parses the
\* arguments, resolves the target, constructs a session whose callback
\* writes to stdout, starts it, polls a flag every 0.1 s and stops it.
\* cli.name is what --name leads to: "None" when absent, else the outcome of
\* find_pid_by_name for it.  cli.elapsed counts the sleeps of the main loop,
\* cli.duration is in the same unit.
Names == {"None", "found", "not_found", "no_psutil"}
Durations == {NoDuration} \cup (0..MaxDuration)
ExitCodes == {Running, 0, 1, ExitUsage, ExitFlushFailed}

\* What a step of main() alone leaves unchanged.
mainFrame == <<cpc, lifecycle, cb_arg, with_pc, find, conv, sessionVars, workerVars, readerVars>>

\* What a step of main() that enters a method of the session leaves unchanged.
mainCallFrame == <<lifecycle, cb_arg, with_pc, find, conv, sessionVars, workerVars, readerVars>>

InitCli ==
    /\ InitCapture
    /\ on_data = "A"
    /\ with_pc = "none"
    /\ find = NoFind
    /\ conv = NoConv
    /\ \E p \in BOOLEAN, n \in Names, o \in BOOLEAN, d \in Durations :
           cli = Parsed(p, n, o, d)

\* parser.error(message): usage and message on stderr, then exit.
ParserError == [cli EXCEPT !.mpc = "exited", !.stderr = TRUE,
                           !.exit_code = ExitUsage]

\* 'if args.pid is None and args.name is None: parser.error(...)'
\* 'if not args.stdout: parser.error(...)'
MainValidate ==
    /\ cli.mpc = "validate"
    /\ cli' = IF (~cli.pid /\ cli.name = "None") \/ ~cli.stdout
                 THEN ParserError
                 ELSE [cli EXCEPT !.mpc = "resolve"]
    /\ UNCHANGED mainFrame

\* 'if args.name: pid = find_pid_by_name(args.name) ... else: pid = args.pid'
\* A ValueError or RuntimeError of the lookup is printed and main returns 1.
\* Then the handlers of SIGINT and SIGTERM are installed.
MainResolve ==
    /\ cli.mpc = "resolve"
    /\ cli' = IF cli.name = "None"
                 THEN [cli EXCEPT !.mpc = "construct", !.target = "pid"]
                 ELSE IF cli.name = "found"
                 THEN [cli EXCEPT !.mpc = "construct", !.target = "name"]
                 ELSE [cli EXCEPT !.mpc = "exiting", !.stderr = TRUE,
                                  !.exit_code = 1]
    /\ UNCHANGED mainFrame

\* 'tap = ProcessAudioCapture(pid, on_data=on_data)' raises: the handler of
\* "except Exception" logs the error and main returns 1.
MainConstructFails ==
    /\ cli.mpc = "construct"
    /\ cli' = [cli EXCEPT !.mpc = "exiting", !.stderr = TRUE, !.exit_code = 1]
    /\ UNCHANGED mainFrame

\* The constructor returns and main enters 'tap.start()'.
MainCallStart ==
    /\ cli.mpc = "construct"
    /\ cpc = "idle"
    /\ cpc' = "start"
    /\ cli' = [cli EXCEPT !.mpc = "in_start"]
    /\ UNCHANGED mainCallFrame

\* tap.start() raises: "except Exception" logs the error and main returns 1.
MainStartFailed ==
    /\ cli.mpc = "in_start"
    /\ cpc = "start_failed"
    /\ cpc' = "idle"
    /\ cli' = [cli EXCEPT !.mpc = "exiting", !.stderr = TRUE, !.exit_code = 1]
    /\ UNCHANGED mainCallFrame

\* tap.start() returns: 'start_time = time.time()'
MainStarted ==
    /\ cli.mpc = "in_start"
    /\ cpc = "idle"
    /\ cli' = [cli EXCEPT !.mpc = "loop", !.elapsed = 0]
    /\ UNCHANGED mainFrame

\* 'if args.duration and (time.time() - start_time) >= args.duration: break'
\* A duration of None and a duration of 0.0 are both false.
DurationOver == cli.duration # NoDuration /\ cli.duration # 0
                /\ cli.elapsed >= cli.duration

\* One test of the main loop: 'while not stop_requested:', then the time
\* limit, then on to 'time.sleep(0.1)'.
MainLoop ==
    /\ cli.mpc = "loop"
    /\ cli' = IF cli.stop_requested \/ DurationOver
                 THEN [cli EXCEPT !.mpc = "stop"]
                 ELSE [cli EXCEPT !.mpc = "sleep"]
    /\ UNCHANGED mainFrame

\* 'time.sleep(0.1)' returns.
MainSleep ==
    /\ cli.mpc = "sleep"
    /\ cli' = [cli EXCEPT !.mpc = "loop",
                          !.elapsed = IF @ < MaxDuration THEN @ + 1 ELSE @]
    /\ UNCHANGED mainFrame

\* 'tap.stop()' after the loop.
MainCallStop ==
    /\ cli.mpc = "stop"
    /\ cpc = "idle"
    /\ cpc' = "stop"
    /\ cli' = [cli EXCEPT !.mpc = "in_stop", !.stop_calls = @ + 1]
    /\ UNCHANGED mainCallFrame

\* tap.stop() returns: 'return 0'
MainReturn ==
    /\ cli.mpc = "in_stop"
    /\ cpc = "idle"
    /\ cli' = [cli EXCEPT !.mpc = "exiting", !.exit_code = 0]
    /\ UNCHANGED mainFrame

\* The status the process ends with after 'sys.exit(main())': the
\* interpreter flushes sys.stdout at shutdown, and when that flush fails
\* (data left in the buffer of a broken pipe) the status becomes 120.
FinalStatus(code) ==
    IF cli.unflushed /\ cli.pipe = "broken" THEN ExitFlushFailed ELSE code

\* 'sys.exit(main())'
MainExit ==
    /\ cli.mpc = "exiting"
    /\ cli' = [cli EXCEPT !.mpc = "exited",
                          !.exit_code = FinalStatus(cli.exit_code)]
    /\ UNCHANGED mainFrame

\* signal_handler(signum, frame): 'stop_requested = True'.  It runs on the
\* main thread once the handlers are installed.
SignalHandler(signum) ==
    /\ cli.mpc \in {"construct", "in_start", "loop", "sleep", "stop", "in_stop"}
    /\ ~cli.stop_requested
    /\ cli' = [cli EXCEPT !.stop_requested = TRUE]
    /\ UNCHANGED mainFrame

\* The reader of the pipe on stdout goes away.
PipeBreaks ==
    /\ cli.mpc \in {"construct", "in_start", "loop", "sleep", "stop", "in_stop"}
    /\ cli.pipe = "open"
    /\ cli' = [cli EXCEPT !.pipe = "broken"]
    /\ UNCHANGED mainFrame

\* on_data(pcm, frames) of main(), on the worker thread:
\* 'sys.stdout.buffer.write(pcm); sys.stdout.buffer.flush()', and
\* 'except BrokenPipeError: stop_requested = True'.  The data of a failed
\* flush stays in the buffer of sys.stdout.
OnData(w) ==
    /\ wpc[w] = "callback"
    /\ wpc' = [wpc EXCEPT ![w] = "put"]
    /\ cli' = IF cli.pipe = "open"
                 THEN [cli EXCEPT !.unflushed = FALSE]
                 ELSE [cli EXCEPT !.unflushed = TRUE, !.stop_requested = TRUE]
    /\ UNCHANGED <<wbuf, captured, spawned, cbLog, sessionVars, cpc, lifecycle,
                   cb_arg, with_pc, find, conv, readerVars>>

NextCli ==
    \/ MainValidate
    \/ MainResolve
    \/ MainConstructFails
    \/ MainCallStart
    \/ StartCheck
    \/ StartClear
    \/ StartSpawn
    \/ MainStartFailed
    \/ MainStarted
    \/ MainLoop
    \/ MainSleep
    \/ MainCallStop
    \/ StopSet
    \/ StopJoin
    \/ StopBackend
    \/ MainReturn
    \/ MainExit
    \/ \E signum \in {"SIGINT", "SIGTERM"} : SignalHandler(signum)
    \/ PipeBreaks
    \/ \E w \in Workers : WorkerCheck(w)
    \/ \E w \in Workers : WorkerRead(w)
    \/ \E w \in Workers : WorkerReadExcept(w)
    \/ \E w \in Workers : WorkerSleep(w)
    \/ \E w \in Workers : WorkerDispatch(w)
    \/ \E w \in Workers : WorkerInvoke(w)
    \/ \E w \in Workers : OnData(w)
    \/ \E w \in Workers : WorkerPut(w)
    \/ \E w \in Workers : WorkerSentinel(w)

SpecCli == InitCli /\ [][NextCli]_vars

\* ------------------------------------------- find_pid_by_name(process_name)
\* A string is a sequence of characters.  psutil.process_iter(['pid',
\* 'name']) is a sequence of processes; proc.info of each holds a name or
\* None and a PID or None, or looking at it raises NoSuchProcess (the
\* process vanished) or AccessDenied.  The PID of a process is its place in
\* the enumeration.
Exe == <<".", "e", "x", "e">>

\* str.lower() on the characters of the model
LowerChar(c) ==
    CASE c = "A" -> "a"
      [] c = "B" -> "b"
      [] c = "E" -> "e"
      [] c = "X" -> "x"
      [] OTHER -> c

Lower(s) == [k \in 1..Len(s) |-> LowerChar(s[k])]

ProcNames ==
    {<<"a">>, <<"A">>, <<"b">>, <<"a">> \o Exe, <<"A", ".", "E", "X", "E">>}

QueryNames == {<<"a">>, <<"A">>, <<"A", ".", "e", "X", "e">>, <<"B">> \o Exe}

\* What one process of the enumeration can look like.
ProcInfos ==
    [kind : {"ok", "no_pid"}, name : ProcNames]
        \cup [kind : {"no_name", "vanished", "denied"}, name : {<< >>}]

\* The enumerations of at most n processes.
Enumerations(n) == UNION {[1..k -> ProcInfos] : k \in 0..n}

InitFind ==
    /\ InitCapture
    /\ with_pc = "none"
    /\ cli = NoCli
    /\ conv = NoConv
    /\ \E ps \in Enumerations(MaxProcs), q \in QueryNames, lib \in BOOLEAN :
           find = FindCall(lib, ps, q)

\* What a step of find_pid_by_name leaves unchanged.
findFrame ==
    <<cpc, lifecycle, cb_arg, with_pc, cli, conv, sessionVars, workerVars,
      readerVars>>

\* Faulty variant: the names are compared as they are.
Matches_CaseSensitive(proc_name, process_name) ==
    \/ proc_name = process_name
    \/ proc_name = process_name \o Exe

\* 'proc_name.lower() == process_name.lower()' or
\* 'proc_name.lower() == f"{process_name.lower()}.exe"'
Matches(proc_name, process_name) ==
    \/ Lower(proc_name) = Lower(process_name)
    \/ Lower(proc_name) = Lower(process_name) \o Exe

\* 'if psutil is None: raise RuntimeError(...)', else the loop begins.
FindStart ==
    /\ find.pc = "start"
    /\ find' = IF find.psutil
                  THEN [find EXCEPT !.pc = "loop", !.i = 1]
                  ELSE [find EXCEPT !.pc = "done", !.result = "RuntimeError"]
    /\ UNCHANGED findFrame

\* One turn of 'for proc in psutil.process_iter(...)': the process is
\* skipped (an exception, or no name, or no PID), or its PID is returned.
FindLoop ==
    /\ find.pc = "loop"
    /\ find.i <= Len(find.procs)
    /\ LET proc == find.procs[find.i] IN
       find' = IF proc.kind = "ok" /\ Matches(proc.name, find.process_name)
                  THEN [find EXCEPT !.pc = "done", !.result = "pid",
                                    !.pid = find.i]
                  ELSE [find EXCEPT !.i = @ + 1]
    /\ UNCHANGED findFrame

\* The enumeration is over: 'raise ValueError(...)'
FindNotFound ==
    /\ find.pc = "loop"
    /\ find.i > Len(find.procs)
    /\ find' = [find EXCEPT !.pc = "done", !.result = "ValueError"]
    /\ UNCHANGED findFrame

NextFind == FindStart \/ FindLoop \/ FindNotFound

SpecFind == InitFind /\ [][NextFind]_vars

\* ------------------------------------------- the format converter
\* AudioConverter of proctap.backends.converter, as the specification of the
\* converter describes it (decode, channel conversion, resampling, emit) and
\* with the constructor arguments src/test_converter_optimizations.py gives
\* it.  A native buffer is a sequence of frames, each a sequence of one
\* integer or float sample per channel, followed by "extra" bytes of an
\* incomplete frame.  A decoded sample is the fraction num/den.
Formats == {"INT16", "INT24", "INT24_32", "INT32", "FLOAT32"}

\* bytes per sample
Width(format) ==
    CASE format = "INT16" -> 2
      [] format = "INT24" -> 3
      [] OTHER -> 4

\* The format's positive maximum; a float sample is its own value.
PositiveMax(format) ==
    CASE format = "INT16" -> 32767
      [] format \in {"INT24", "INT24_32"} -> 8388607
      [] format = "INT32" -> 2147483647
      [] OTHER -> 1

\* The canonical format: 48 000 Hz, 2 channels, float32.
CanonicalRate == 48000
CanonicalChannels == 2
CanonicalFormat == "FLOAT32"

NativeRates == {32000, 44100, 48000, 96000}
NativeChannels == 1..3

\* The samples the buffers of the model hold: silence, the positive maximum
\* and the lowest value of the format.
SampleValues(format) ==
    IF format = "INT32"
       THEN {-PositiveMax(format), 0, PositiveMax(format)}
       ELSE {-PositiveMax(format) - 1, 0, PositiveMax(format)}

Zero == [num |-> 0, den |-> 1]

\* Step 1: a sample divided by the positive maximum of its format; the one
\* extra value of the negative range gives -1.0 exactly.
Decode(v, format) ==
    IF v = 0 THEN Zero
    ELSE [num |-> IF v < -PositiveMax(format) THEN -PositiveMax(format) ELSE v,
          den |-> PositiveMax(format)]

\* A decoded sample written in an integer or float format.
Encode(f, format) ==
    IF f.den = PositiveMax(format) THEN f.num
    ELSE (f.num * PositiveMax(format)) \div f.den

RECURSIVE SumNum(_)
SumNum(fs) == IF fs = << >> THEN 0 ELSE Head(fs).num + SumNum(Tail(fs))

\* The mean of the decoded samples fs of one format.
Mean(fs) ==
    IF \A k \in 1..Len(fs) : fs[k] = fs[1] THEN fs[1]
    ELSE IF SumNum(fs) = 0 THEN Zero
    ELSE [num |-> SumNum(fs), den |-> fs[1].den * Len(fs)]

\* Step 2: one frame of decoded samples brought to dst_channels channels.
\* 1 -> 2 duplicates; 2 -> 2 is the identity; N -> 2 folds the odd-indexed
\* inputs into L and the even-indexed ones into R; N -> 1 is the mean.
ConvertChannels(frame, dst_channels) ==
    IF Len(frame) = dst_channels THEN frame
    ELSE IF dst_channels = 1 THEN <<Mean(frame)>>
    ELSE IF Len(frame) = 1 THEN <<frame[1], frame[1]>>
    ELSE <<Mean([k \in 1..((Len(frame) + 1) \div 2) |-> frame[2 * k - 1]]),
           Mean([k \in 1..(Len(frame) \div 2) |-> frame[2 * k]])>>

\* A converter as constructed: phase is the fractional remainder carried
\* between calls, counted in 1/src_rate of an output frame.
\* src and dst are the rate, the channel count and the sample format.
AudioConverter(src, dst) ==
    [src_rate |-> src[1], src_channels |-> src[2], src_format |-> src[3],
     dst_rate |-> dst[1], dst_channels |-> dst[2], dst_format |-> dst[3],
     phase |-> 0]

\* bytes per native frame
FrameSize(c) == c.src_channels * Width(c.src_format)

\* The byte count of a native buffer.
ByteCount(c, buf) == Len(buf.frames) * FrameSize(c) + buf.extra

\* Faulty variant: the remainder of a call is dropped.
CarriedPhase_Dropped(c, n) == 0

\* Step 3: the output frame count of a call with n input frames is
\* floor((n + phase_accumulator) * dst_rate / src_rate), and the fractional
\* remainder is carried forward.
OutputFrames(c, n) == (n * c.dst_rate + c.phase) \div c.src_rate

CarriedPhase(c, n) == (n * c.dst_rate + c.phase) % c.src_rate

\* The resampled frames: as many as OutputFrames says.  The values of the
\* filter are not modelled: each output frame holds the input frame at its
\* place in time (exact for silence).
Resample(c, frames) ==
    IF c.src_rate = c.dst_rate THEN frames
    ELSE [j \in 1..OutputFrames(c, Len(frames)) |->
             LET k == ((j - 1) * c.src_rate) \div c.dst_rate + 1
             IN  frames[IF k > Len(frames) THEN Len(frames) ELSE k]]

\* Faulty variant: only the first channel of each frame is written.
Emit_FirstChannel(c, frames) ==
    Len(frames) * Width(c.dst_format)

\* Step 4: the bytes written for the frames, interleaved.
Emit(c, frames) ==
    Len(frames) * c.dst_channels * Width(c.dst_format)

\* Faulty variant: the one channel is written to L, and R is left silent.
Stereo_LeftOnly(c, frame) ==
    IF c.src_channels = 1 /\ c.dst_channels = 2
       THEN <<Decode(frame[1], c.src_format), Zero>>
       ELSE ConvertChannels([k \in 1..Len(frame) |->
                                Decode(frame[k], c.src_format)],
                            c.dst_channels)

\* Steps 1 and 2 on one native frame.
Stereo(c, frame) ==
    ConvertChannels([k \in 1..Len(frame) |-> Decode(frame[k], c.src_format)],
                    c.dst_channels)

\* Faulty variant: the bytes of an incomplete frame are dropped and the
\* whole frames before them are converted.
Convert_DropsTail(c, buf) ==
    LET decoded == [k \in 1..Len(buf.frames) |-> Stereo(c, buf.frames[k])]
        out == Resample(c, decoded)
    IN  [c |-> IF c.src_rate = c.dst_rate THEN c
               ELSE [c EXCEPT !.phase = CarriedPhase(c, Len(buf.frames))],
         out |-> out, bytes |-> Emit(c, out), error |-> "none"]

\* convert(buf): the converter after the call, the frames produced, the
\* byte count returned and the error raised.  A buffer that is not a whole
\* number of native frames is a malformed_buffer error.
Convert(c, buf) ==
    IF buf.extra # 0
       THEN [c |-> c, out |-> << >>, bytes |-> 0,
             error |-> "malformed_buffer"]
       ELSE LET decoded == [k \in 1..Len(buf.frames) |->
                               Stereo(c, buf.frames[k])]
                out == Resample(c, decoded)
            IN  [c |-> IF c.src_rate = c.dst_rate THEN c
                       ELSE [c EXCEPT !.phase =
                                CarriedPhase(c, Len(buf.frames))],
                 out |-> out, bytes |-> Emit(c, out), error |-> "none"]

\* No second converter has run.
NoResult == [c |-> 0, out |-> << >>, bytes |-> 0, error |-> "no_call"]

\* The state of a converter in use: the converter, its last call and the
\* frames taken in and given out by its calls so far; "down" is the call of
\* a second converter on the output of the last call.
NewConv(c) ==
    [pc |-> "ready", c |-> c, calls |-> 0, buf |-> [frames |-> << >>, extra |-> 0],
     last |-> NoResult, total_in |-> 0, total_out |-> 0, down |-> NoResult]

\* What a step of the converter leaves unchanged.
convFrame ==
    <<cpc, lifecycle, cb_arg, with_pc, cli, find, sessionVars, workerVars,
      readerVars>>

\* The buffers of up to n frames of a format and channel count, with the
\* samples taken from the set V, and up to one byte of an incomplete frame.
Buffers(n, channels, V) ==
    [frames : UNION {[1..k -> [1..channels -> V]] : k \in 0..n},
     extra : {0, 1}]

\* 'result = converter.convert(pcm_bytes)'
ConvConvert(buf) ==
    /\ conv.pc = "ready"
    /\ conv.calls < MaxCalls
    /\ LET r == Convert(conv.c, buf) IN
       conv' = [conv EXCEPT
                  !.c = r.c, !.calls = @ + 1, !.buf = buf, !.last = r,
                  !.total_in = IF r.error = "none"
                                  THEN @ + Len(buf.frames) ELSE @,
                  !.total_out = @ + Len(r.out),
                  !.down = NoResult]
    /\ UNCHANGED convFrame

\* The stream of a silent target: every sample is 0.
ConvConvertSilence ==
    \E buf \in Buffers(MaxFrames, conv.c.src_channels, {0}) : ConvConvert(buf)

\* A native stream converted to the canonical format, call after call.
InitConv ==
    /\ InitCapture
    /\ with_pc = "none"
    /\ cli = NoCli
    /\ find = NoFind
    /\ \E r \in NativeRates, n \in NativeChannels, f \in Formats :
           conv = NewConv(AudioConverter(<<r, n, f>>,
               <<CanonicalRate, CanonicalChannels, CanonicalFormat>>))

NextConv == ConvConvertSilence

SpecConv == InitConv /\ [][NextConv]_vars

\* A mono stream made stereo at the same rate and sample format, as in
\* test_channel_conversion.
InitMono ==
    /\ InitCapture
    /\ with_pc = "none"
    /\ cli = NoCli
    /\ find = NoFind
    /\ \E r \in NativeRates, f \in Formats :
           conv = NewConv(AudioConverter(<<r, 1, f>>, <<r, 2, f>>))

\* The first call, on a buffer of any samples.
ConvConvertAny ==
    /\ conv.calls = 0
    /\ \E buf \in Buffers(MaxFrames, conv.c.src_channels,
                       SampleValues(conv.c.src_format)) : ConvConvert(buf)

\* 'converter2 = AudioConverter(src_channels=2, dst_channels=1, ...)' with
\* the rate and format of the first; 'result2 = converter2.convert(result)'
ConvDownmix ==
    /\ conv.pc = "ready"
    /\ conv.calls > 0
    /\ conv.down.error = "no_call"
    /\ conv.last.error = "none"
    /\ LET c1 == conv.c
           c2 == AudioConverter(
                     <<c1.dst_rate, c1.dst_channels, c1.dst_format>>,
                     <<c1.dst_rate, 1, c1.dst_format>>)
           result == [frames |-> [k \in 1..Len(conv.last.out) |->
                                    [ch \in 1..c1.dst_channels |->
                                       Encode(conv.last.out[k][ch],
                                              c1.dst_format)]],
                      extra |-> 0]
       IN  conv' = [conv EXCEPT !.down = Convert(c2, result)]
    /\ UNCHANGED convFrame

NextMono == ConvConvertAny \/ ConvDownmix

SpecMono == InitMono /\ [][NextMono]_vars

\* ---------------------------------------------------- read mode: read()
\* No callback is registered; reader threads call read(timeout) while the
\* caller starts and stops the session.
InitRead == Init /\ on_data = "None"

NextRead ==
    \/ CallStart
    \/ StartCheck
    \/ StartFailed
    \/ StartSkip
    \/ StartClear
    \/ StartSpawn
    \/ CallStop
    \/ CallClose
    \/ CloseStop
    \/ StopSet
    \/ StopJoin
    \/ StopBackend
    \/ \E w \in Workers : WorkerCheck(w)
    \/ \E w \in Workers : WorkerRead(w)
    \/ \E w \in Workers : WorkerReadExcept(w)
    \/ \E w \in Workers : WorkerSleep(w)
    \/ \E w \in Workers : WorkerDispatch(w)
    \/ \E w \in Workers : WorkerPut(w)
    \/ \E w \in Workers : WorkerSentinel(w)
    \/ \E r \in Readers : CallRead(r)
    \/ \E r \in Readers : ReadCheck(r)
    \/ \E r \in Readers : ReadAlive(r)
    \/ \E r \in Readers : ReadGet(r)
    \/ \E r \in Readers : ReadTimeout(r)

SpecRead == InitRead /\ [][NextRead]_vars

\* ------------------------------------------- async mode: iter_chunks()
\* No callback is registered; one consumer iterates iter_chunks() while the
\* caller starts and stops the session.
NextIter ==
    \/ CallStart
    \/ StartCheck
    \/ StartFailed
    \/ StartSkip
    \/ StartClear
    \/ StartSpawn
    \/ CallStop
    \/ CallClose
    \/ CloseStop
    \/ StopSet
    \/ StopJoin
    \/ StopBackend
    \/ \E w \in Workers : WorkerCheck(w)
    \/ \E w \in Workers : WorkerRead(w)
    \/ \E w \in Workers : WorkerReadExcept(w)
    \/ \E w \in Workers : WorkerSleep(w)
    \/ \E w \in Workers : WorkerDispatch(w)
    \/ \E w \in Workers : WorkerPut(w)
    \/ \E w \in Workers : WorkerSentinel(w)
    \/ IterStart
    \/ IterNext

SpecIter == InitRead /\ [][NextIter]_vars

\* ------------------------------------ async mode: two iter_chunks() consumers
\* One run of the session with up to two consumers in iter_chunks(); every
\* thread is scheduled again and again, every backend.read() returns, and a
\* consumer takes an item whenever the queue keeps one for it.
NextIters ==
    \/ CallStartOnce
    \/ StartCheck
    \/ StartFailed
    \/ StartClear
    \/ StartSpawn
    \/ CallStop
    \/ StopSet
    \/ StopJoin
    \/ StopBackend
    \/ \E w \in Workers : WorkerCheck(w)
    \/ \E w \in Workers : WorkerRead(w)
    \/ \E w \in Workers : WorkerReadExcept(w)
    \/ \E w \in Workers : WorkerSleep(w)
    \/ \E w \in Workers : WorkerDispatch(w)
    \/ \E w \in Workers : WorkerPut(w)
    \/ \E w \in Workers : WorkerSentinel(w)
    \/ IterStart
    \/ IterNext
    \/ Iter2Start
    \/ Iter2Next

SpecIters ==
    /\ InitRead
    /\ [][NextIters]_vars
    /\ WF_vars(StartSteps \/ StopSteps)
    /\ \A w \in Workers : WF_vars(WorkerSteps(w))
    /\ WF_vars(IterNext)
    /\ WF_vars(Iter2Next)

\* ------------------------------------------- async mode: consumer after restart
\* The consumer enters iter_chunks() once the second start() has returned;
\* nothing has consumed from the queue before.
IterStartAfterRestart ==
    /\ spawned = 2
    /\ cpc = "idle"
    /\ IterStart

NextRestart ==
    \/ CallStart
    \/ StartCheck
    \/ StartFailed
    \/ StartSkip
    \/ StartClear
    \/ StartSpawn
    \/ CallStop
    \/ StopSet
    \/ StopJoin
    \/ StopBackend
    \/ \E w \in Workers : WorkerCheck(w)
    \/ \E w \in Workers : WorkerRead(w)
    \/ \E w \in Workers : WorkerReadExcept(w)
    \/ \E w \in Workers : WorkerSleep(w)
    \/ \E w \in Workers : WorkerDispatch(w)
    \/ \E w \in Workers : WorkerPut(w)
    \/ \E w \in Workers : WorkerSentinel(w)
    \/ IterStartAfterRestart
    \/ IterNext

SpecRestart == InitRead /\ [][NextRestart]_vars

TypeOK ==
    /\ thread \in {NoThread} \cup Workers
    /\ stop_event \in BOOLEAN
    /\ backend_started \in BOOLEAN
    /\ on_data \in Callbacks
    /\ captured \in 0..MaxBuffers
    /\ spawned \in 0..MaxWorkers
    /\ lifecycle \in {"idle", "running", "stopped"}
    /\ cb_arg \in Callbacks
    /\ cli.mpc \in {"none", "validate", "resolve", "construct", "in_start",
                   "loop", "sleep", "stop", "in_stop", "exiting", "exited"}
    /\ cli.mpc # "none" =>
           /\ cli.duration \in Durations
           /\ cli.elapsed \in 0..MaxDuration
           /\ cli.exit_code \in ExitCodes
           /\ cli.stop_calls \in 0..1

\* ------------------------------------------------ scenario S4: no consumer
\* One start(), no stop() and no reader: the worker produces up to S4Produced
\* buffers onto the queue.
NextOverflow ==
    \/ CallStart
    \/ StartCheck
    \/ StartFailed
    \/ StartSkip
    \/ StartClear
    \/ StartSpawn
    \/ \E w \in Workers : WorkerCheck(w)
    \/ \E w \in Workers : WorkerReadUpTo(w, S4Produced)
    \/ \E w \in Workers : WorkerReadExcept(w)
    \/ \E w \in Workers : WorkerSleep(w)
    \/ \E w \in Workers : WorkerDispatch(w)
    \/ \E w \in Workers : WorkerInvoke(w)
    \/ \E w \in Workers : CallbackReturn(w)
    \/ \E w \in Workers : CallbackRaise(w)
    \/ \E w \in Workers : WorkerPut(w)

SpecOverflow == Init /\ [][NextOverflow]_vars

\* ------------------------------------------------------ observed quantities
RECURSIVE CountIn(_, _)
CountIn(seq, x) ==
    IF seq = << >> THEN 0
    ELSE (IF Head(seq) = x THEN 1 ELSE 0) + CountIn(Tail(seq), x)

\* Every item put on the queue so far, in put order: what readers have taken,
\* then what is still queued.
PutLog == readLog \o async_queue

SentinelsEnqueued == CountIn(PutLog, Sentinel)

DataOf(seq) == SelectSeq(seq, LAMBDA x : x # Sentinel)

Increasing(seq) == \A i, j \in 1..Len(seq) : i < j => seq[i] < seq[j]

LiveWorkers == {w \in Workers : is_alive(w)}

\* No facade call is in progress on the caller thread.
Returned == cpc = "idle"

\* ------------------------------------------------------------------ claims

\* C1: whenever no call is in progress, a running session has exactly one live
\* worker and a started backend, and an idle or stopped session has no live
\* worker and a backend that is not started.
C1_WorkerMatchesLifecycle ==
    Returned =>
        /\ lifecycle = "running" =>
               Cardinality(LiveWorkers) = 1 /\ backend_started
        /\ lifecycle \in {"idle", "stopped"} =>
               LiveWorkers = {} /\ ~backend_started

\* C2: once stop() has returned (and until the next call), no step invokes the
\* callback and no step puts an item, data or sentinel, on the queue.
C2_QuietAfterStop ==
    [][(Returned /\ lifecycle = "stopped") =>
          (cbLog' = cbLog /\ Len(PutLog') = Len(PutLog))]_vars

\* C3: when stop() has returned, as many sentinels have been enqueued as there
\* were start()/stop() cycles (one per worker spawned), each of them after the
\* data that was enqueued before the stop; while running, one fewer; a stop()
\* on a session that was never started enqueues none.
C3_OneSentinelPerCycle ==
    Returned =>
        /\ lifecycle = "stopped" =>
               /\ SentinelsEnqueued = spawned
               /\ (spawned > 0 => PutLog[Len(PutLog)] = Sentinel)
        /\ lifecycle = "running" => SentinelsEnqueued = spawned - 1
        /\ lifecycle = "idle" => SentinelsEnqueued = 0

\* C4: with no consumer, the queue holds the last S4Capacity buffers put on it
\* (all of them while there are no more than S4Capacity): a contiguous suffix
\* of the captured sequence that ends with the newest buffer.
C4_BoundedDropOldest ==
    LET put  == captured - Cardinality({w \in Workers : wbuf[w] # 0})
        kept == IF put < S4Capacity THEN put ELSE S4Capacity
    IN  async_queue = [i \in 1..kept |-> put - kept + i]

\* C5: the callback receives the buffers in capture order, and the buffers
\* enter the queue in that same order.
C5_CallbackThenQueueInOrder ==
    /\ Increasing([i \in 1..Len(cbLog) |-> cbLog[i][2]])
    /\ Increasing(DataOf(PutLog))

\* C6: start() on a session that is already started does nothing: its steps
\* leave the handle, the stop flag, the backend, the callback, the queue and
\* the worker threads as they are, and it returns.
C6_StartWhileRunningIsNoOp ==
    [][(cpc \in {"start", "skipped"} /\ thread # NoThread /\ cpc' # cpc) =>
          /\ cpc' = (IF cpc = "start" THEN "skipped" ELSE "idle")
          /\ UNCHANGED <<thread, stop_event, backend_started, on_data,
                         async_queue, wpc, spawned, lifecycle>>]_vars

\* start() has found a running session with a queued buffer and skipped.
C6_Witness ==
    /\ cpc = "skipped"
    /\ lifecycle = "running"
    /\ is_running
    /\ async_queue # << >>

\* C7: once a stop() or close() has returned, the steps of a further stop() or
\* close() change nothing: session state, queue contents (no extra sentinel)
\* and backend stay as they are.
C7_RepeatedStopIsNoOp ==
    [][(/\ lifecycle = "stopped"
        /\ cpc \in {"stop", "close", "stop_join", "stop_backend"}
        /\ cpc' # cpc) =>
          UNCHANGED <<thread, stop_event, backend_started, on_data, async_queue,
                      readLog, cbLog, wpc, spawned, lifecycle>>]_vars

\* A second stop() on a session that ran and was stopped is at its last step,
\* with the first stop's sentinel in the queue.
C7_Witness ==
    /\ lifecycle = "stopped"
    /\ cpc = "stop_backend"
    /\ spawned > 0
    /\ SentinelsEnqueued = 1
    /\ async_queue # << >>

\* C8: when a start() that follows a stop() has returned, the session runs
\* again: the handle refers to the newly spawned worker, that worker is alive
\* and has not seen a stop request, the backend is started and the stop flag
\* is clear.
C8_RestartRuns ==
    (Returned /\ lifecycle = "running" /\ spawned > 1) =>
        /\ thread = spawned
        /\ is_alive(thread)
        /\ wpc[thread] # "sentinel"
        /\ backend_started
        /\ ~stop_event

\* After a restart whose first worker has ended, a buffer that was put on the
\* queue after the first run's sentinel has also gone to the callback.
C8_Witness ==
    /\ Returned /\ lifecycle = "running" /\ spawned = 2 /\ wpc[1] = "dead"
    /\ \E i \in 1..Len(PutLog) :
         /\ PutLog[i] # Sentinel
         /\ \E j \in 1..(i - 1) : PutLog[j] = Sentinel
         /\ \E k \in 1..Len(cbLog) : cbLog[k][2] = PutLog[i]

\* C9: a read() whose check runs while the session is idle or stopped raises
\* the not-running error and takes nothing from the queue.
C9_ReadWhenNotRunningRaises ==
    [][\A r \in Readers :
          (/\ rpc[r] = "read" /\ rpc'[r] # "read"
           /\ Returned /\ lifecycle \in {"idle", "stopped"}) =>
             /\ rpc'[r] = "raised"
             /\ async_queue' = async_queue
             /\ readLog' = readLog]_vars

\* A read() on a stopped session has raised while the queue holds items.
C9_Witness ==
    /\ Returned /\ lifecycle = "stopped"
    /\ \E r \in Readers : rpc[r] = "raised"
    /\ async_queue # << >>
    /\ readLog = << >>

\* C10: a read() that takes an item while the session is running (no call in
\* progress) takes a data buffer, and one captured later than every item that
\* read() has returned before: capture order, nothing twice.
C10_ReadReturnsNextBuffer ==
    [][\A r \in Readers :
          (/\ rpc[r] = "get" /\ readLog' # readLog
           /\ Returned /\ lifecycle = "running") =>
             /\ Head(async_queue) # Sentinel
             /\ \A i \in 1..Len(readLog) : readLog[i] < Head(async_queue)]_vars

\* ------------------------------------------------------------------ C11
\* The prefix of seq before its first sentinel (all of seq when it has none).
RECURSIVE UpToSentinel(_)
UpToSentinel(seq) ==
    IF seq = << >> \/ Head(seq) = Sentinel THEN << >>
    ELSE <<Head(seq)>> \o UpToSentinel(Tail(seq))

\* C11: a single iter_chunks() consumer yields exactly the data buffers that
\* were put on the queue, in queue order, up to the first sentinel; it never
\* yields the sentinel; it has terminated exactly when it has dequeued the
\* sentinel, and it dequeues nothing after that.
C11_IterYieldsUntilSentinel ==
    /\ yielded = UpToSentinel(readLog)
    /\ yielded = SubSeq(UpToSentinel(PutLog), 1, Len(yielded))
    /\ ipc = "done" => yielded = UpToSentinel(PutLog)
    /\ \A i \in 1..Len(yielded) : yielded[i] # Sentinel
    /\ ipc = "done" <=> CountIn(readLog, Sentinel) > 0
    /\ CountIn(readLog, Sentinel) > 0 =>
          readLog = Append(yielded, Sentinel)

\* The consumer ended on the first sentinel after yielding every buffer of the
\* first run, while a buffer of the second run waits on the queue.
C11_Witness ==
    /\ ipc = "done"
    /\ Len(yielded) > 0
    /\ spawned = 2
    /\ async_queue # << >>
    /\ Head(async_queue) # Sentinel

\* ------------------------------------------------------------------ C12
\* C12: set_callback(fn) completes without error in every lifecycle state and
\* leaves fn in the slot; the slot changes through set_callback() only; every
\* callback invocation that begins goes to the callback the slot holds then,
\* which is the one of the last returned set_callback().
C12_SetCallbackTakesEffect ==
    [][/\ (cpc = "set_callback" /\ cpc' # cpc) =>
            (cpc' = "idle" /\ on_data' = cb_arg)
       /\ on_data' # on_data => cpc = "set_callback"
       /\ Len(cbLog') > Len(cbLog) =>
            (on_data # "None" /\ cbLog'[Len(cbLog')][1] = on_data)]_vars

\* A took the first buffer, B (registered while running) a later one, and the
\* callback was removed after stop().
C12_Witness ==
    /\ Returned
    /\ lifecycle = "stopped"
    /\ on_data = "None"
    /\ \E i, j \in 1..Len(cbLog) :
         i < j /\ cbLog[i][1] = "A" /\ cbLog[j][1] = "B"

\* ------------------------------------------------------------------ C13
\* C13: with A registered before start() and replaced by B while running,
\* every captured buffer that has passed the dispatch was delivered exactly
\* once, in capture order, to A or to B; A's deliveries are a prefix of the
\* capture sequence and B's the rest.
C13_SwapSplitsPrefixSuffix ==
    LET pending == {w \in Workers : wpc[w] \in {"dispatch", "invoke"}}
    IN  /\ Len(cbLog) = captured - Cardinality(pending)
        /\ \A i \in 1..Len(cbLog) :
              /\ cbLog[i][2] = i
              /\ cbLog[i][1] \in {"A", "B"}
              /\ cbLog[i][1] = "B" => on_data = "B"
        /\ \A i, j \in 1..Len(cbLog) :
              (i < j /\ cbLog[i][1] = "B") => cbLog[j][1] = "B"

\* The swap came after the first buffer: A has buffer 1, B has buffer 2, and
\* both buffers are on the queue.
C13_Witness ==
    /\ Len(cbLog) = 2
    /\ cbLog[1][1] = "A"
    /\ cbLog[2][1] = "B"
    /\ Len(async_queue) = 2
    /\ lifecycle = "running"

\* ------------------------------------------------------------------ C14
\* C14, as stated: a set_callback() call on a session that is not running is
\* rejected and leaves the registered callback unchanged.
C14_RejectedWhenNotRunning ==
    [][(cpc = "set_callback" /\ lifecycle \in {"idle", "stopped"}
          /\ ~is_running /\ cpc' # cpc) =>
         on_data' = on_data]_vars

\* C14, amended: a set_callback(fn) call on a session that is not running is
\* accepted: it returns without error, leaves fn registered and changes
\* nothing else of the session.
C14_AcceptedWhenNotRunning ==
    [][(cpc = "set_callback" /\ lifecycle \in {"idle", "stopped"}
          /\ ~is_running /\ cpc' # cpc) =>
         /\ cpc' = "idle"
         /\ on_data' = cb_arg
         /\ UNCHANGED <<thread, stop_event, backend_started, async_queue,
                        lifecycle, cbLog>>]_vars

\* B is registered on a session that was never started.
C14_Witness ==
    /\ Returned
    /\ lifecycle = "idle"
    /\ spawned = 0
    /\ on_data = "B"

\* ------------------------------------------------------------------ C15
InSeq(seq, x) == \E i \in 1..Len(seq) : seq[i] = x

\* C15: when the callback raises, the worker stays alive and goes on to put
\* the same buffer on the queue, and the caller's position is untouched; so a
\* buffer whose callback raised is on its way to the queue or was put on it.
C15_CallbackErrorSwallowed ==
    /\ [](\A k \in 1..Len(cbLog) :
            cbLog[k][3] = "raised" =>
              \/ InSeq(PutLog, cbLog[k][2])
              \/ \E w \in Workers :
                   is_alive(w) /\ wpc[w] = "put" /\ wbuf[w] = cbLog[k][2])
    /\ [][\A w \in Workers :
            /\ (wpc[w] = "callback" /\ wpc'[w] # "callback") =>
                 /\ wpc'[w] = "put"
                 /\ wbuf'[w] = wbuf[w]
                 /\ UNCHANGED <<cpc, lifecycle, thread, async_queue>>
            /\ (wpc[w] = "put" /\ wpc'[w] # "put") =>
                 /\ wpc'[w] = "check"
                 /\ async_queue' = Append(async_queue, wbuf[w])]_vars

\* The callback raised on buffer 1; buffer 1 is on the queue all the same, and
\* the same worker, still alive, has delivered buffer 2 to the callback.
C15_Witness ==
    /\ spawned = 1
    /\ is_alive(1)
    /\ Len(cbLog) = 2
    /\ cbLog[1] = <<"A", 1, "raised">>
    /\ cbLog[2][2] = 2
    /\ async_queue = <<1, 2>>

\* ------------------------------------------------------------------ C16
\* C16: when backend.read() raises, the worker stays alive and holds no
\* buffer; the failed iteration invokes no callback and enqueues nothing; the
\* worker goes back to the check of the stop flag and, the flag not set,
\* reads again.
C16_ReadErrorRetried ==
    /\ [](\A w \in Workers :
            wpc[w] = "read_except" => (is_alive(w) /\ wbuf[w] = 0))
    /\ [][\A w \in Workers :
            /\ (wpc[w] = "read" /\ wpc'[w] = "read_except") =>
                 UNCHANGED <<cbLog, async_queue, captured, cpc, thread>>
            /\ (wpc[w] = "read_except" /\ wpc'[w] # "read_except") =>
                 /\ wpc'[w] = "check"
                 /\ UNCHANGED <<cbLog, async_queue, captured, cpc, thread>>
            /\ (wpc[w] = "check" /\ wpc'[w] # "check" /\ ~stop_event) =>
                 wpc'[w] = "read"]_vars

\* A read failed after buffer 1 was delivered and queued; no stop is requested.
C16_Witness ==
    /\ spawned = 1
    /\ wpc[1] = "read_except"
    /\ ~stop_event
    /\ is_running
    /\ async_queue = <<1>>
    /\ Len(cbLog) = 1

\* ------------------------------------------------------------------ C17
\* C17: when backend.start() fails, start() raises to the caller and changes
\* nothing: no worker handle, no new worker, is_running false, the queue as it
\* was; a start() on a session without a worker handle is never skipped, so a
\* later start() attempts the backend start again.
C17_FailedStartChangesNothing ==
    /\ [](cpc = "start_failed" => (thread = NoThread /\ ~is_running))
    /\ [][/\ (cpc = "start" /\ cpc' = "start_failed") =>
               UNCHANGED <<thread, spawned, wpc, async_queue, stop_event,
                           lifecycle>>
          /\ (cpc = "start_failed" /\ cpc' # cpc) =>
               /\ cpc' = "idle"
               /\ UNCHANGED <<thread, spawned, wpc, async_queue, stop_event,
                              lifecycle>>
          /\ (cpc = "start" /\ thread = NoThread /\ cpc' # cpc) =>
               cpc' \in {"start_clear", "start_failed"}]_vars

\* A restart failed: the session stays stopped, the first run's items are
\* still on the queue.
C17_Witness ==
    /\ cpc = "start_failed"
    /\ lifecycle = "stopped"
    /\ spawned = 1
    /\ wpc[1] = "dead"
    /\ async_queue # << >>

\* ------------------------------------------------------------------ C18
\* C18: stop() never raises to its caller, whatever thread and lifecycle
\* state it is called in, and once stop() is past the join the session holds
\* no worker handle.
C18_StopNeverRaises ==
    /\ \A w \in Workers : wpc[w] # "cb_stop_raised"
    /\ cpc = "stop_backend" => thread = NoThread
    /\ \A w \in Workers : wpc[w] = "cb_stop_backend" => thread = NoThread

\* ------------------------------------------------------------------ C19
\* C19: on a silent target no callback is invoked and no buffer is queued
\* (nothing at all before a stop request); after each empty read the worker
\* goes back to the test of the stop flag; a stop() that was entered returns,
\* and once the flag is set every worker ends.
C19_SilenceThenStop ==
    /\ [](/\ cbLog = << >>
          /\ DataOf(PutLog) = << >>
          /\ ~stop_event => PutLog = << >>)
    /\ [][\A w \in Workers :
            (wpc[w] = "sleep" /\ wpc'[w] # "sleep") => wpc'[w] = "check"]_vars
    /\ (cpc = "stop") ~> (cpc = "idle" /\ lifecycle = "stopped")
    /\ stop_event ~> (\A w \in Workers : ~is_alive(w))

\* A callback is registered, the worker polled the silent backend and ended
\* on the stop request: the queue holds the sentinel only.
C19_Witness ==
    /\ Returned
    /\ lifecycle = "stopped"
    /\ on_data = "A"
    /\ wpc[1] = "dead"
    /\ cbLog = << >>
    /\ async_queue = <<Sentinel>>

\* ------------------------------------------------------------------ C20
\* C20: a worker leaves its loop only at the test of the stop flag and only
\* when the flag is set, and only stop() sets the flag; the sentinel is put
\* only by a worker that left its loop.  So while no stop was requested on the
\* first run the worker is alive, is_running is true and the queue has no
\* sentinel, whatever the backend returned and the callback did.
C20_ExitOnlyOnStop ==
    /\ []((~stop_event /\ lifecycle # "stopped" /\ spawned <= 1) =>
            /\ \A w \in 1..spawned : is_alive(w)
            /\ SentinelsEnqueued = 0
            /\ lifecycle = "running" => is_running)
    /\ [][/\ \A w \in Workers :
               /\ (wpc'[w] = "sentinel" /\ wpc[w] # "sentinel") =>
                    (stop_event /\ wpc[w] = "check")
               /\ (wpc'[w] = "dead" /\ wpc[w] # "dead") =>
                    wpc[w] = "sentinel"
          /\ (stop_event' /\ ~stop_event) => cpc = "stop"
          /\ CountIn(async_queue', Sentinel) > CountIn(async_queue, Sentinel) =>
               \E w \in Workers : wpc[w] = "sentinel" /\ wpc'[w] = "dead"]_vars

\* No stop was requested: after a raising callback, two queued buffers and an
\* empty read the first worker is still alive.
C20_Witness ==
    /\ lifecycle = "running"
    /\ ~stop_event
    /\ spawned = 1
    /\ is_running
    /\ wpc[1] = "sleep"
    /\ async_queue = <<1, 2>>
    /\ Len(cbLog) = 2
    /\ cbLog[1][3] = "raised"

\* ------------------------------------------------------------------ C21
\* C21: a "with" block calls start() on entry and close() on exit, normal or
\* not; once the block is left the session is stopped, with no worker thread
\* and no worker handle left and the backend stopped, and the block is left
\* with the body's exception exactly when the body raised.
C21_ScopedUse ==
    /\ with_pc = "body" => lifecycle = "running"
    /\ with_pc \in {"exit_ok", "exit_exc"} =>
          cpc \in {"close", "stop", "stop_join", "stop_backend", "idle"}
    /\ with_pc \in {"after_ok", "after_exc"} =>
          /\ lifecycle = "stopped"
          /\ thread = NoThread
          /\ ~backend_started
          /\ LiveWorkers = {}

\* ------------------------------------------------------------------ C22
\* C22: stop() sets the stop flag first, leaves the join for the backend
\* teardown with the handle cleared, and every stop() that was entered
\* returns, also when the worker never comes back from backend.read() or
\* from the callback.
C22_StopAlwaysReturns ==
    /\ [][/\ (cpc = "stop" /\ cpc' # cpc) =>
               (stop_event' /\ cpc' = "stop_join")
          /\ (cpc = "stop_join" /\ cpc' # cpc) =>
               (thread' = NoThread /\ cpc' = "stop_backend")
          /\ (cpc = "stop_backend" /\ cpc' # cpc) =>
               (~backend_started' /\ cpc' = "idle")]_vars
    /\ (cpc \in {"stop", "close"}) ~> (cpc = "idle" /\ lifecycle = "stopped")

\* stop() has returned and stopped the backend while the worker is still
\* inside the callback.
C22_Witness ==
    /\ Returned
    /\ lifecycle = "stopped"
    /\ ~backend_started
    /\ thread = NoThread
    /\ \E w \in Workers : wpc[w] = "callback"

\* ------------------------------------------------------------------ C23
\* The invocation had neither --pid nor --name, or had no --stdout.
InvocationError == (~cli.pid /\ cli.name = "None") \/ ~cli.stdout

\* The invocation was well-formed and the capture never came to run: the
\* name was not resolved, or constructing or starting the capture raised.
CaptureFailed == ~InvocationError /\ lifecycle = "idle"

\* C23: the process exits with 1 after an invocation error and after a
\* capture failure, with a diagnostic on stderr and no capture running, and
\* with 0 after a capture that was started and stopped.
C23_ExitCodes ==
    cli.mpc = "exited" =>
        /\ (InvocationError \/ CaptureFailed) =>
               /\ cli.exit_code = 1
               /\ cli.stderr
               /\ ~backend_started
               /\ LiveWorkers = {}
        /\ cli.stop_calls = 1 => cli.exit_code = 0

\* ------------------------------------------------------------------ C24
\* C24: an invocation with both --pid and --name is rejected as an
\* invocation error; no capture is constructed or started for either target.
C24_PidAndNameRejected ==
    (cli.pid /\ cli.name # "None" /\ cli.stdout) =>
        /\ cli.target = "none"
        /\ lifecycle = "idle"
        /\ cli.mpc \in {"validate", "exited"}
        /\ cli.mpc = "exited" => cli.exit_code \notin {Running, 0}

\* ------------------------------------------------------------------ C25
\* C25: a run whose capture started ends with exactly one call of stop() and
\* the exit code 0, whatever ended its main loop (a signal, a broken pipe or
\* the time limit); tap.stop() is called only after the loop, and a broken
\* pipe leaves the worker in its loop.
C25_GracefulStop ==
    /\ (cli.mpc = "exited" /\ lifecycle # "idle") =>
           /\ cli.stop_calls = 1
           /\ cli.exit_code = 0
    /\ \A w \in Workers :
           (wpc[w] \in {"sentinel", "dead"} /\ cli.mpc # "none") => stop_event

\* ------------------------------------------------------------------ C26
\* C26: at a test of the main loop with --duration S given and S elapsed,
\* the loop is left for tap.stop(); with --duration absent it is left only
\* on a stop request.
C26_DurationStops ==
    [][(cli.mpc = "loop" /\ cli'.mpc # "loop") =>
           /\ (cli.duration # NoDuration /\ cli.elapsed >= cli.duration)
                  => cli'.mpc = "stop"
           /\ (cli.duration = NoDuration /\ ~cli.stop_requested)
                  => cli'.mpc = "sleep"]_vars


\* ------------------------------------------------------------------ C27
\* The two characters are the same letter, whatever their case.
SameLetter(c, d) ==
    \/ c = d
    \/ {c, d} \in {{"a", "A"}, {"b", "B"}, {"e", "E"}, {"x", "X"}}

\* The two strings are equal case-insensitively.
EqualIgnoringCase(s, t) ==
    /\ Len(s) = Len(t)
    /\ \A k \in 1..Len(s) : SameLetter(s[k], t[k])

\* The places of the enumeration that hold a process with a name and a PID
\* whose name is S or S + ".exe", case-insensitively.
Candidates ==
    {k \in 1..Len(find.procs) :
        /\ find.procs[k].kind = "ok"
        /\ \/ EqualIgnoringCase(find.procs[k].name, find.process_name)
           \/ EqualIgnoringCase(find.procs[k].name, find.process_name \o Exe)}

\* C27: with psutil present, find_pid_by_name returns the PID of the first
\* candidate of the enumeration, and raises the not-found error when there
\* is none.
C27_FirstMatch ==
    (find.pc = "done" /\ find.psutil) =>
        IF Candidates = {}
           THEN find.result = "ValueError"
           ELSE /\ find.result = "pid"
                /\ find.pid \in Candidates
                /\ \A k \in Candidates : find.pid <= k

\* A process without PID whose name matches, then a process whose name
\* differs in case and has the ".exe" suffix, then another match.
C27_Witness ==
    /\ find.pc = "done"
    /\ find.result = "pid"
    /\ find.pid = 2
    /\ find.procs[1].kind \in {"no_pid", "vanished", "denied", "no_name"}
    /\ find.procs[2].name # find.process_name
    /\ Len(find.procs[2].name) = Len(find.process_name) + 4
    /\ Lower(find.procs[2].name) # find.procs[2].name


\* ------------------------------------------------------------------ C28
\* C28: a call of the canonical converter on a buffer of whole native
\* frames, in any format, channel count and rate, raises nothing and returns
\* a byte count divisible by 8: whole frames of two float32 samples.
C28_WholeFrames ==
    (conv.pc = "ready" /\ conv.calls > 0 /\ conv.buf.extra = 0
       /\ conv.c.dst_channels = CanonicalChannels
       /\ conv.c.dst_format = CanonicalFormat) =>
        /\ conv.last.error = "none"
        /\ conv.last.bytes % 8 = 0
        /\ conv.last.bytes = 8 * Len(conv.last.out)

\* A resampled three-channel buffer that gives an odd number of frames.
C28_Witness ==
    /\ conv.pc = "ready"
    /\ conv.calls > 0
    /\ conv.buf.extra = 0
    /\ conv.c.src_channels = 3
    /\ conv.c.src_format = "INT24"
    /\ conv.c.src_rate # conv.c.dst_rate
    /\ conv.c.dst_format = CanonicalFormat
    /\ Len(conv.last.out) % 2 = 1
    /\ conv.last.bytes > 0

\* ------------------------------------------------------------------ C29
\* The distance of two integers.
Dist(a, b) == IF a >= b THEN a - b ELSE b - a

\* C29: for a native rate R other than the target rate T, a call with n
\* input frames gives n * T / R output frames within one frame, and the
\* frames given out by all calls so far differ by at most one from
\* floor(total input frames * T / R), however the stream was split.
C29_NoDrift ==
    (conv.pc = "ready" /\ conv.c.src_rate # conv.c.dst_rate) =>
        /\ (conv.calls > 0 /\ conv.last.error = "none") =>
               Dist(Len(conv.last.out) * conv.c.src_rate,
                    Len(conv.buf.frames) * conv.c.dst_rate) <= conv.c.src_rate
        /\ Dist(conv.total_out,
                (conv.total_in * conv.c.dst_rate) \div conv.c.src_rate) <= 1

\* A later call that gives one frame more than floor(n * T / R): the
\* remainder carried from the calls before it made a frame.
C29_Witness ==
    /\ conv.pc = "ready"
    /\ conv.calls >= 3
    /\ conv.c.src_rate # conv.c.dst_rate
    /\ conv.last.error = "none"
    /\ Len(conv.last.out) =
           (Len(conv.buf.frames) * conv.c.dst_rate) \div conv.c.src_rate + 1
    /\ conv.total_in > Len(conv.buf.frames)

\* ------------------------------------------------------------------ C30
\* C30: a mono buffer made stereo at the same rate and sample format gives,
\* for every frame i, L[i] = R[i] = input[i], and twice the bytes of the
\* input; down-mixed to mono again it has the byte count of the input.
C30_MonoToStereo ==
    (/\ conv.pc = "ready"
     /\ conv.calls > 0
     /\ conv.last.error = "none"
     /\ conv.c.src_channels = 1
     /\ conv.c.dst_channels = 2
     /\ conv.c.src_rate = conv.c.dst_rate
     /\ conv.c.src_format = conv.c.dst_format) =>
        /\ Len(conv.last.out) = Len(conv.buf.frames)
        /\ \A k \in 1..Len(conv.buf.frames) :
               LET input == Decode(conv.buf.frames[k][1], conv.c.src_format)
               IN  /\ conv.last.out[k][1] = input
                   /\ conv.last.out[k][2] = input
        /\ conv.last.bytes = 2 * ByteCount(conv.c, conv.buf)
        /\ conv.down.error # "no_call" =>
               /\ conv.down.error = "none"
               /\ conv.down.bytes = ByteCount(conv.c, conv.buf)
               /\ Len(conv.down.out) = Len(conv.buf.frames)

\* Two mono frames of different loud samples, made stereo and down-mixed.
C30_Witness ==
    /\ conv.pc = "ready"
    /\ conv.c.src_channels = 1
    /\ conv.c.dst_channels = 2
    /\ conv.c.src_format = "INT16"
    /\ conv.last.error = "none"
    /\ Len(conv.buf.frames) = 2
    /\ conv.buf.frames[1][1] = 32767
    /\ conv.buf.frames[2][1] = -32768
    /\ conv.last.bytes = 8
    /\ conv.down.error = "none"
    /\ conv.down.bytes = 4

\* ------------------------------------------------------------------ C31
\* C31: a call on a buffer whose byte count is not a multiple of the native
\* frame size raises malformed_buffer and returns no output, and the call
\* leaves the converter, with the remainder its resampler carries, as it
\* was.
C31_MalformedRejected ==
    /\ [](conv.pc = "ready" /\ conv.calls > 0
            /\ ByteCount(conv.c, conv.buf) % FrameSize(conv.c) # 0
          => /\ conv.last.error = "malformed_buffer"
             /\ conv.last.out = << >>
             /\ conv.last.bytes = 0)
    /\ [][(/\ conv.pc = "ready"
           /\ conv'.calls = conv.calls + 1
           /\ ByteCount(conv'.c, conv'.buf) % FrameSize(conv'.c) # 0)
          => /\ conv'.c = conv.c
             /\ conv'.total_out = conv.total_out]_vars

\* A malformed buffer that holds whole frames too, given to a resampling
\* converter that carries a remainder from the calls before.
C31_Witness ==
    /\ conv.pc = "ready"
    /\ conv.calls >= 2
    /\ conv.buf.extra # 0
    /\ Len(conv.buf.frames) > 0
    /\ conv.c.src_rate # conv.c.dst_rate
    /\ conv.c.phase > 0
    /\ conv.last.error = "malformed_buffer"

\* ------------------------------------------------------------------ C32
\* The worker threads that are inside an invocation of the callback.
InCallback == {w \in Workers : wpc[w] = "callback"}

\* C32: at most one invocation of the callback is in progress at any moment.
C32_OneCallbackAtATime == Cardinality(InCallback) <= 1

\* ------------------------------------------------------------------ C33
\* stop() has been requested for the worker w and w has not ended: stop()
\* alone drops the handle of a worker, after it has set the stop flag.
StopRequestedFor(w) == is_alive(w) /\ thread # w

\* C33: with every backend.read() and every callback returning, a worker
\* for which stop() has been requested ends, whatever start() does to the
\* stop flag in between.
C33_StoppedWorkerEnds ==
    \A w \in Workers : StopRequestedFor(w) ~> ~is_alive(w)

\* ------------------------------------------------------------------ C34
\* C34: a worker that passes the test of its loop and calls backend.read()
\* does so while the backend is started.
C34_ReadOnlyWhileStarted ==
    [][\A w \in Workers :
          (wpc[w] = "check" /\ wpc'[w] = "read") => backend_started]_vars

\* ------------------------------------------------------------------ C35
\* C35: a read() that takes an item from the queue never takes the
\* sentinel: the sentinel stays there for an iter_chunks() consumer.
C35_ReadLeavesSentinel ==
    [][\A r \in Readers :
          (rpc[r] = "get" /\ rpc'[r] = "idle" /\ async_queue # << >>)
              => Head(async_queue) # Sentinel]_vars

\* ------------------------------------------------------------------ C36
\* stop() has returned and no worker is left.
StoppedAndQuiet ==
    /\ cpc = "idle"
    /\ lifecycle = "stopped"
    /\ LiveWorkers = {}

\* C36: each consumer that is inside iter_chunks() when the session is
\* stopped and its worker has ended leaves iter_chunks().
C36_EveryConsumerEnds ==
    /\ (ipc = "get" /\ StoppedAndQuiet) ~> (ipc = "done")
    /\ (ipc2 = "get" /\ StoppedAndQuiet) ~> (ipc2 = "done")

\* ------------------------------------------------------------------ C37
\* C37: a consumer that begins after the second start(), with no consumer
\* before it, ends at the sentinel of the second run: when it leaves
\* iter_chunks() the worker of the second run has ended.
C37_RestartDeliversNewRun == ipc = "done" => wpc[2] = "dead"

\* ------------------------------------------------------------------ C38
\* No thread is inside stop(): neither the caller nor a callback.
NoStopInProgress ==
    /\ cpc \notin {"stop", "close", "stop_join", "stop_backend"}
    /\ \A w \in Workers :
           wpc[w] \notin {"cb_stop_join", "cb_stop_backend", "cb_stop_raised"}

\* C38: once every stop() has ended, on whatever thread it ran, a worker
\* that has ended is not the session's handle any more and the backend of
\* an idle session without live worker and with the flag set is stopped;
\* start()
\* is skipped only for a worker that is alive.
C38_StopFromCallbackStops ==
    /\ [](NoStopInProgress =>
            /\ \A w \in Workers : wpc[w] = "dead" => thread # w
            /\ (cpc = "idle" /\ stop_event /\ LiveWorkers = {})
                   => ~backend_started)
    /\ [][(cpc = "start" /\ cpc' = "skipped") => is_alive(thread)]_vars

\* ------------------------------------------------------------------ C39
\* C39: the worker that found a callback in the slot and goes on to call
\* it calls a callback: the slot it loads for the call is not empty, and
\* the buffer is handed to the callback, whatever set_callback did since
\* the worker's test.
C39_DispatchSeesOneSlot ==
    [][\A w \in Workers :
          (wpc[w] = "invoke" /\ wpc'[w] # "invoke")
              => /\ on_data # "None"
                 /\ wpc'[w] = "callback"
                 /\ cbLog' = Append(cbLog, <<on_data, wbuf[w], "called">>)]_vars

====
